---- MODULE Spec2Model ----
(***************************************************************************)
(* Model of the two one-shot patch scripts of the repository:              *)
(*   rewrite_cut.py : truncate the target file at the needle               *)
(*   temp_fix.py    : replace the text between two locators by new_block   *)
(* A behaviour is one invocation of one script, possibly followed by       *)
(* further invocations of the same script on the file it left behind.      *)
(* Characters are abstracted to a two-letter alphabet; the literal         *)
(* locators and the literal patch are drawn from bounded sets of strings.  *)
(* Offsets are Python offsets (0-based).                                   *)
(***************************************************************************)
EXTENDS Integers, Sequences, FiniteSets, TLC

\* ---------------------------------------------------------------- bounds
MaxLen == 4
MaxLoc == 2
MaxPatch == 2
MaxRuns == 3

Alphabet == {"a", "b"}

StrUpTo(n) == UNION {[1..k -> Alphabet] : k \in 0..n}

Documents == StrUpTo(MaxLen)

Locators == StrUpTo(MaxLoc) \ {<<>>}

Patches == StrUpTo(MaxPatch)

\* ------------------------------------------------- Python string helpers
\* variant: a negative bound is clamped to 0 instead of counted from the end
Norm_nowrap(i, n) ==
  IF i < 0 THEN 0
  ELSE IF i > n THEN n ELSE i

\* clamp of a slice bound, as Python does for text[i:] and text[:j]
Norm(i, n) ==
  IF i < 0 THEN (IF i + n < 0 THEN 0 ELSE i + n)
  ELSE IF i > n THEN n ELSE i

\* text[:j]
SliceTo(t, j) == SubSeq(t, 1, Norm(j, Len(t)))

\* text[i:]
SliceFrom(t, i) == SubSeq(t, Norm(i, Len(t)) + 1, Len(t))

\* n occurs in t at offset i
MatchAt(t, n, i) ==
  /\ i >= 0
  /\ i + Len(n) <= Len(t)
  /\ SubSeq(t, i + 1, i + Len(n)) = n

RECURSIVE FindFrom(_, _, _)
FindFrom(t, n, i) ==
  IF i + Len(n) > Len(t) THEN -1
  ELSE IF MatchAt(t, n, i) THEN i
  ELSE FindFrom(t, n, i + 1)

RECURSIVE RFindFrom(_, _, _)
RFindFrom(t, n, i) ==
  IF i < 0 THEN -1
  ELSE IF MatchAt(t, n, i) THEN i
  ELSE RFindFrom(t, n, i - 1)

\* variant: the highest offset instead of the lowest
find_last(t, n) == RFindFrom(t, n, Len(t) - Len(n))

\* str.find: lowest offset of n in t, -1 when absent
find(t, n) == FindFrom(t, n, 0)

\* variant: the highest offset instead of the lowest
index_last(t, n) == RFindFrom(t, n, Len(t) - Len(n))

\* str.index: the offset str.find returns; the caller raises ValueError on -1
index(t, n) == FindFrom(t, n, 0)

\* variant: the lowest offset instead of the highest
rfind_first(t, n) == FindFrom(t, n, 0)

\* str.rfind: highest offset of n in t, -1 when absent
rfind(t, n) == RFindFrom(t, n, Len(t) - Len(n))

\* ----------------------------------------------------------------- state
VARIABLES
  script,        \* "cut" (rewrite_cut.py) or "fix" (temp_fix.py)
  file,          \* content of the target file on disk
  file0,         \* content of the target file when the current run started
  needle,        \* rewrite_cut.py: the locator literal
  startLocator,  \* temp_fix.py: the literal passed to text.index
  endLocator,    \* temp_fix.py: the literal passed to text.rfind
  new_block,     \* temp_fix.py: the patch literal
  pc,            \* position of the run in the script
  text,          \* the document read into memory
  pos,           \* rewrite_cut.py: result of text.find
  start,         \* temp_fix.py: result of text.index
  footer,        \* temp_fix.py: result of text.rfind
  prefix,        \* temp_fix.py: text[:start]
  suffix,        \* temp_fix.py: text[footer:]
  data,          \* the argument evaluated for write_text
  status,        \* exit status of the run: -1 while running
  err,           \* what the run died of
  reads,         \* read_text calls of the current run
  writes,        \* write_text calls of the current run
  run,           \* number of the current run
  prevStatus,    \* exit status of the previous run, -1 when there is none
  origin,        \* content of the target file before the first run
  okRuns         \* runs so far that succeeded, counted while none has failed

vars == <<script, file, file0, needle, startLocator, endLocator, new_block,
          pc, text, pos, start, footer, prefix, suffix, data, status, err,
          reads, writes, run, prevStatus, origin, okRuns>>

consts == <<script, needle, startLocator, endLocator, new_block, origin>>

locals == <<text, pos, start, footer, prefix, suffix, data>>

Unset == -2

Running == -1

\* the state of the interpreter when a run begins
Fresh ==
  /\ pc = "read"
  /\ text = <<>>
  /\ pos = Unset
  /\ start = Unset
  /\ footer = Unset
  /\ prefix = <<>>
  /\ suffix = <<>>
  /\ data = <<>>
  /\ status = Running
  /\ err = "none"
  /\ reads = 0
  /\ writes = 0

Init ==
  /\ file \in Documents
  /\ file0 = file
  /\ \/ /\ script = "cut"
        /\ needle \in Locators
        /\ startLocator = <<>>
        /\ endLocator = <<>>
        /\ new_block = <<>>
     \/ /\ script = "fix"
        /\ needle = <<>>
        /\ startLocator \in Locators
        /\ endLocator \in Locators
        /\ new_block \in Patches
  /\ Fresh
  /\ run = 1
  /\ prevStatus = -1
  /\ origin = file
  /\ okRuns = 0

\* an uncaught exception, or SystemExit with a message: exit status 1
Die(e) ==
  /\ pc' = "done"
  /\ status' = 1
  /\ err' = e

\* ------------------------------------------------------------- both: read
Read ==
  /\ pc = "read"
  /\ text' = file
  /\ reads' = reads + 1
  /\ pc' = IF script = "cut" THEN "find" ELSE "index"
  /\ UNCHANGED <<consts, file, file0, pos, start, footer, prefix, suffix,
                 data, status, err, writes, run, prevStatus,
                 okRuns>>

ReadFail ==
  /\ pc = "read"
  /\ reads' = reads + 1
  /\ Die("OSError")
  /\ UNCHANGED <<consts, file, file0, locals, writes, run, prevStatus,
                 okRuns>>

\* ---------------------------------------------------------- rewrite_cut.py
CutFind ==
  /\ pc = "find"
  /\ pos' = find(text, needle)
  /\ pc' = "check"
  /\ UNCHANGED <<consts, file, file0, text, start, footer, prefix, suffix,
                 data, status, err, reads, writes, run, prevStatus,
                 okRuns>>

\* variant: the pos == -1 guard is missing and the slice is written
CutNotFound_unguarded ==
  /\ pc = "check"
  /\ pos = -1
  /\ data' = SliceTo(text, pos)
  /\ pc' = "open"
  /\ UNCHANGED <<consts, file, file0, text, pos, start, footer, prefix,
                 suffix, status, err, reads, writes, run, prevStatus,
                 okRuns>>

CutNotFound ==
  /\ pc = "check"
  /\ pos = -1
  /\ Die("needle not found")
  /\ UNCHANGED <<consts, file, file0, locals, reads, writes, run, prevStatus,
                 okRuns>>

\* variant: the cut is taken after the needle instead of before it
CutData_keepNeedle ==
  /\ pc = "check"
  /\ pos # -1
  /\ data' = SliceTo(text, pos + Len(needle))
  /\ pc' = "open"
  /\ UNCHANGED <<consts, file, file0, text, pos, start, footer, prefix,
                 suffix, status, err, reads, writes, run, prevStatus,
                 okRuns>>

CutData ==
  /\ pc = "check"
  /\ pos # -1
  /\ data' = SliceTo(text, pos)
  /\ pc' = "open"
  /\ UNCHANGED <<consts, file, file0, text, pos, start, footer, prefix,
                 suffix, status, err, reads, writes, run, prevStatus,
                 okRuns>>

\* ------------------------------------------------------------- temp_fix.py
FixIndex ==
  /\ pc = "index"
  /\ index(text, startLocator) # -1
  /\ start' = index(text, startLocator)
  /\ pc' = "rfind"
  /\ UNCHANGED <<consts, file, file0, text, pos, footer, prefix, suffix,
                 data, status, err, reads, writes, run, prevStatus,
                 okRuns>>

FixIndexRaise ==
  /\ pc = "index"
  /\ index(text, startLocator) = -1
  /\ Die("ValueError")
  /\ UNCHANGED <<consts, file, file0, locals, reads, writes, run, prevStatus,
                 okRuns>>

FixRfind ==
  /\ pc = "rfind"
  /\ footer' = rfind(text, endLocator)
  /\ pc' = "slice"
  /\ UNCHANGED <<consts, file, file0, text, pos, start, prefix, suffix,
                 data, status, err, reads, writes, run, prevStatus,
                 okRuns>>

\* variant: the suffix starts after the end locator's match
FixSlice_consume ==
  /\ pc = "slice"
  /\ prefix' = SliceTo(text, start)
  /\ suffix' = SliceFrom(text, footer + Len(endLocator))
  /\ pc' = "concat"
  /\ UNCHANGED <<consts, file, file0, text, pos, start, footer, data,
                 status, err, reads, writes, run, prevStatus,
                 okRuns>>

\* variant: a footer before start is moved up to start
FixSlice_ordered ==
  /\ pc = "slice"
  /\ prefix' = SliceTo(text, start)
  /\ suffix' = SliceFrom(text, IF footer >= 0 /\ footer < start
                                 THEN start ELSE footer)
  /\ pc' = "concat"
  /\ UNCHANGED <<consts, file, file0, text, pos, start, footer, data,
                 status, err, reads, writes, run, prevStatus,
                 okRuns>>

FixSlice ==
  /\ pc = "slice"
  /\ prefix' = SliceTo(text, start)
  /\ suffix' = SliceFrom(text, footer)
  /\ pc' = "concat"
  /\ UNCHANGED <<consts, file, file0, text, pos, start, footer, data,
                 status, err, reads, writes, run, prevStatus,
                 okRuns>>

FixData ==
  /\ pc = "concat"
  /\ data' = prefix \o new_block \o suffix
  /\ pc' = "open"
  /\ UNCHANGED <<consts, file, file0, text, pos, start, footer, prefix,
                 suffix, status, err, reads, writes, run, prevStatus,
                 okRuns>>

\* ------------------------------------------------------- both: write_text
\* variant: the file is opened without truncation
WriteOpen_keep ==
  /\ pc = "open"
  /\ writes' = writes + 1
  /\ file' = file
  /\ pc' = "write"
  /\ UNCHANGED <<consts, file0, locals, status, err, reads, run, prevStatus,
                 okRuns>>

\* open(path, 'w'): the file is truncated as soon as the open succeeds
WriteOpen ==
  /\ pc = "open"
  /\ writes' = writes + 1
  /\ file' = <<>>
  /\ pc' = "write"
  /\ UNCHANGED <<consts, file0, locals, status, err, reads, run, prevStatus,
                 okRuns>>

\* the open fails (unwritable path): nothing on disk has changed
WriteOpenFail ==
  /\ pc = "open"
  /\ writes' = writes + 1
  /\ Die("OSError")
  /\ UNCHANGED <<consts, file, file0, locals, reads, run, prevStatus,
                 okRuns>>

\* f.write(data) at offset 0 of the opened file, then close
WriteData ==
  /\ pc = "write"
  /\ file' = data \o SubSeq(file, Len(data) + 1, Len(file))
  /\ pc' = "done"
  /\ status' = 0
  /\ UNCHANGED <<consts, file0, locals, err, reads, writes, run, prevStatus,
                 okRuns>>

\* the write fails part-way (disk full, interrupted): some proper prefix
\* of the data has reached the file
WriteDataFail ==
  /\ pc = "write"
  /\ \E k \in 0..(Len(data) - 1) :
       file' = SubSeq(data, 1, k) \o SubSeq(file, k + 1, Len(file))
  /\ Die("OSError")
  /\ UNCHANGED <<consts, file0, locals, reads, writes, run, prevStatus,
                 okRuns>>

\* ------------------------------------- the same script is invoked again
Rerun ==
  /\ pc = "done"
  /\ run < MaxRuns
  /\ run' = run + 1
  /\ prevStatus' = status
  /\ okRuns' = IF status = 0 /\ okRuns = run - 1 THEN run ELSE okRuns
  /\ file0' = file
  /\ pc' = "read"
  /\ text' = <<>>
  /\ pos' = Unset
  /\ start' = Unset
  /\ footer' = Unset
  /\ prefix' = <<>>
  /\ suffix' = <<>>
  /\ data' = <<>>
  /\ status' = Running
  /\ err' = "none"
  /\ reads' = 0
  /\ writes' = 0
  /\ UNCHANGED <<consts, file>>

Next ==
  \/ Read
  \/ ReadFail
  \/ CutFind
  \/ CutNotFound
  \/ CutData
  \/ FixIndex
  \/ FixIndexRaise
  \/ FixRfind
  \/ FixSlice
  \/ FixData
  \/ WriteOpen
  \/ WriteOpenFail
  \/ WriteData
  \/ WriteDataFail
  \/ Rerun

Spec == Init /\ [][Next]_vars

TypeOK ==
  /\ script \in {"cut", "fix"}
  /\ pc \in {"read", "find", "check", "index", "rfind", "slice", "concat",
             "open", "write", "done"}
  /\ status \in {Running, 0, 1}
  /\ err \in {"none", "needle not found", "ValueError", "OSError"}
  /\ run \in 1..MaxRuns

\* ------------------------------------------------ vocabulary of the claims
\* L occurs in D at offset i, character by character
OccursAt(D, L, i) ==
  /\ i \in 0..(Len(D) - Len(L))
  /\ \A k \in 1..Len(L) : D[i + k] = L[k]

Occurs(D, L) == \E i \in 0..Len(D) : OccursAt(D, L, i)

FirstOcc(D, L, i) ==
  /\ OccursAt(D, L, i)
  /\ \A j \in 0..(i - 1) : ~OccursAt(D, L, j)

LastOcc(D, L, i) ==
  /\ OccursAt(D, L, i)
  /\ \A j \in (i + 1)..Len(D) : ~OccursAt(D, L, j)

\* D[0 .. i), all of D when i exceeds its length
Take(D, i) == [k \in 1..(IF i < Len(D) THEN i ELSE Len(D)) |-> D[k]]

\* D[i ..]
Drop(D, i) == [k \in 1..(Len(D) - i) |-> D[i + k]]

Offsets == 0..Len(file0)

Finished == pc = "done"

Succeeded == pc = "done" /\ status = 0

\* the run got past read_text
ReadOk == reads = 1 /\ ~(pc = "done" /\ err = "OSError" /\ writes = 0)

C2_EitherAbsentFails ==
  (script = "fix" /\ Finished /\ ReadOk
     /\ (~Occurs(file0, startLocator) \/ ~Occurs(file0, endLocator))) =>
    /\ status # 0
    /\ err = "ValueError"
    /\ writes = 0
    /\ file = file0

\* C3: a run of rewrite_cut.py on a document that holds the needle, whose
\* write does not fail, succeeds and leaves exactly the prefix of the
\* document that ends where the first occurrence of the needle starts.
C3_TruncateAtFirst ==
  (script = "cut" /\ Finished /\ ReadOk /\ Occurs(file0, needle)
     /\ err # "OSError") =>
    /\ status = 0
    /\ \A i \in Offsets :
         FirstOcc(file0, needle, i) =>
           /\ file = Take(file0, i)
           /\ Len(file) = i
           /\ file \o needle = Take(file0, i + Len(needle))

\* a successful truncation of a document with two matches, the first one
\* not at offset 0
C3_Witness ==
  /\ script = "cut"
  /\ Succeeded
  /\ \E i \in Offsets, j \in Offsets :
       /\ 0 < i
       /\ i < j
       /\ FirstOcc(file0, needle, i)
       /\ LastOcc(file0, needle, j)

\* C4: a run of rewrite_cut.py on a document without the needle never
\* writes and never changes the file, and it ends with exit status 1 and
\* the message 'needle not found'.
C4_AbsentNeedleFails ==
  (script = "cut" /\ ~Occurs(file0, needle)) =>
    /\ writes = 0
    /\ file = file0
    /\ (Finished /\ ReadOk) =>
         /\ status # 0
         /\ err = "needle not found"

\* rewrite_cut.py has given up on a non-empty document without the needle
C4_Witness ==
  /\ script = "cut"
  /\ Finished
  /\ ReadOk
  /\ ~Occurs(file0, needle)
  /\ Len(file0) > 0
  /\ err = "needle not found"

\* C5: when write_text fails, the file holds what it held when the run
\* started.
C5_FailedWriteKeepsFile ==
  (Finished /\ err = "OSError" /\ writes = 1) => file = file0

\* C6: once a run of rewrite_cut.py has succeeded, the file it left holds no
\* occurrence of the needle, so the next run of rewrite_cut.py never writes,
\* leaves the file as it found it and ends with 'needle not found'.
C6_SecondRunFails ==
  (script = "cut" /\ run >= 2 /\ prevStatus = 0) =>
    /\ ~Occurs(file0, needle)
    /\ writes = 0
    /\ file = file0
    /\ (Finished /\ ReadOk) => (status # 0 /\ err = "needle not found")

\* the second run of rewrite_cut.py has failed on the non-empty output of a
\* successful first run
C6_Witness ==
  /\ script = "cut"
  /\ run = 2
  /\ prevStatus = 0
  /\ Finished
  /\ err = "needle not found"
  /\ Len(file) > 0

\* the locator checks of the run have passed
LocatorsPassed ==
  IF script = "cut" THEN pos >= 0 ELSE start >= 0

\* C7: in every run the file is read at most once and written at most once,
\* nothing is computed or written before the read, the file changes only
\* under write_text, the data to write is complete before write_text begins,
\* a finished run whose locator checks passed has issued exactly one write,
\* and after a successful write the file is exactly that data.
C7_ReadComputeWrite ==
  /\ reads \in {0, 1}
  /\ writes \in {0, 1}
  /\ (reads = 0) => (writes = 0 /\ text = <<>> /\ data = <<>> /\ pc = "read")
  /\ (pc \notin {"read", "done"}) => (reads = 1 /\ text = file0)
  /\ (writes = 0) => (file = file0)
  /\ (writes = 1) => (reads = 1 /\ text = file0 /\ LocatorsPassed)
  /\ (pc = "write") => (writes = 1 /\ file = <<>>)
  /\ (Finished /\ LocatorsPassed) => (writes = 1)
  /\ Succeeded => (writes = 1 /\ reads = 1 /\ file = data)

\* a successful run has replaced the file by a shorter document
C7_Witness ==
  /\ Succeeded
  /\ writes = 1
  /\ Len(data) > 0
  /\ Len(file) < Len(file0)

\* C8: after a successful run of temp_fix.py on a document that holds both
\* locators, the text right after the patch is the whole end locator,
\* followed by everything the document held after the end locator's match.
C8_EndLocatorKept ==
  (script = "fix" /\ Succeeded) =>
    \A s \in Offsets, e \in Offsets :
      (FirstOcc(file0, startLocator, s) /\ LastOcc(file0, endLocator, e)) =>
        /\ Take(Drop(file, s + Len(new_block)), Len(endLocator)) = endLocator
        /\ Drop(file, s + Len(new_block) + Len(endLocator))
             = Drop(file0, e + Len(endLocator))

\* a successful splice whose end locator match is followed by more text
C8_Witness ==
  /\ script = "fix"
  /\ Succeeded
  /\ Len(new_block) > 0
  /\ Occurs(file0, startLocator)
  /\ \E e \in Offsets :
       /\ LastOcc(file0, endLocator, e)
       /\ e + Len(endLocator) < Len(file0)

\* C9: when the end locator's match lies before the start locator's match
\* (e < s), temp_fix.py raises no locator error and issues its write; a
\* successful write leaves D[0 .. s) + P + D[e ..], in which D[e .. s)
\* stands both right before and right after the patch and whose length
\* s + len(P) + len(D) - e exceeds len(D) + len(P).
C9_ReversedOrderOverlaps ==
  (script = "fix" /\ Finished /\ ReadOk) =>
    \A s \in Offsets, e \in Offsets :
      (FirstOcc(file0, startLocator, s) /\ LastOcc(file0, endLocator, e)
         /\ e < s) =>
        /\ err \in {"none", "OSError"}
        /\ writes = 1
        /\ Succeeded =>
             /\ file = Take(file0, s) \o new_block \o Drop(file0, e)
             /\ Len(file) = s + Len(new_block) + Len(file0) - e
             /\ Len(file) > Len(file0) + Len(new_block)
             /\ Drop(Take(file, s), e) = Drop(Take(file0, s), e)
             /\ Take(Drop(file, s + Len(new_block)), s - e)
                  = Drop(Take(file0, s), e)

\* a successful splice of a document whose end locator matches before its
\* start locator
C9_Witness ==
  /\ script = "fix"
  /\ Succeeded
  /\ \E s \in Offsets, e \in Offsets :
       /\ FirstOcc(file0, startLocator, s)
       /\ LastOcc(file0, endLocator, e)
       /\ e < s

\* C10: when the document holds the start locator but not the end locator,
\* temp_fix.py raises no locator error and issues its write: footer is -1,
\* the suffix is the last character of the document, and a successful write
\* leaves D[0 .. first S) + P + (last character of D).
C10_AbsentEndKeepsLastChar ==
  (script = "fix" /\ Finished /\ ReadOk
     /\ Occurs(file0, startLocator) /\ ~Occurs(file0, endLocator)) =>
    /\ err \in {"none", "OSError"}
    /\ writes = 1
    /\ footer = -1
    /\ suffix = <<file0[Len(file0)]>>
    /\ Succeeded =>
         \A s \in Offsets :
           FirstOcc(file0, startLocator, s) =>
             file = Take(file0, s) \o new_block \o <<file0[Len(file0)]>>

\* a successful run on a document without the end locator has dropped text
\* that followed the start locator's match
C10_Witness ==
  /\ script = "fix"
  /\ Succeeded
  /\ ~Occurs(file0, endLocator)
  /\ \E s \in Offsets :
       /\ FirstOcc(file0, startLocator, s)
       /\ s + Len(startLocator) < Len(file0) - 1

\* ------------------------------------------- shape of temp_fix.py's literals
\* new_block holds the start locator, first at offset k
BlockOffset(k) == FirstOcc(new_block, startLocator, k)

\* what holds of the literals of temp_fix.py: new_block starts with a
\* character (the newline) that the start locator does not hold, holds the
\* start locator further on, and does not hold the end locator
LiteralShape ==
  /\ Len(new_block) > 0
  /\ \A i \in 1..Len(startLocator) : startLocator[i] # new_block[1]
  /\ \E k \in 1..Len(new_block) : BlockOffset(k)
  /\ ~Occurs(new_block, endLocator)

\* P[0 .. k) repeated n times
RECURSIVE Lead(_, _)
Lead(k, n) == IF n = 0 THEN <<>> ELSE Take(new_block, k) \o Lead(k, n - 1)

\* C11: with literals of the shape of temp_fix.py's and a first document D
\* whose first start-locator match s lies before its last end-locator match
\* e, every run of temp_fix.py that follows only successful runs raises no
\* locator error and issues its write; it finds the start locator k further
\* on than the run before and the end locator at the start of the kept
\* suffix; and when it succeeds the file is D[0 .. s), then P[0 .. k) once
\* per earlier run, then P, then D[e ..], which from the second run on is
\* exactly k characters longer than the file the run started from.
C11_RerunGrowsByK ==
  (script = "fix" /\ LiteralShape /\ okRuns = run - 1 /\ Finished /\ ReadOk) =>
    \A s \in 0..Len(origin), e \in 0..Len(origin), k \in 1..Len(new_block) :
      (FirstOcc(origin, startLocator, s) /\ LastOcc(origin, endLocator, e)
         /\ s < e /\ BlockOffset(k)) =>
        /\ err \in {"none", "OSError"}
        /\ writes = 1
        /\ start = s + (run - 1) * k
        /\ (run >= 2) => (footer = s + (run - 2) * k + Len(new_block))
        /\ Succeeded =>
             /\ file = Take(origin, s) \o Lead(k, run - 1) \o new_block
                         \o Drop(origin, e)
             /\ (run >= 2) => (Len(file) = Len(file0) + k /\ file # file0)

\* a third run in a row of temp_fix.py has succeeded, on literals of that
\* shape and a first document with text before s and s before e
C11_Witness ==
  /\ script = "fix"
  /\ LiteralShape
  /\ run >= 3
  /\ okRuns = run - 1
  /\ Succeeded
  /\ \E s \in 1..Len(origin), e \in 0..Len(origin) :
       /\ FirstOcc(origin, startLocator, s)
       /\ LastOcc(origin, endLocator, e)
       /\ s < e
====
